---- MODULE Spec2Model ----
(***************************************************************************)
(* git-passport: the glue of src/gitpassport.py (__main__) over the        *)
(* functions of the passport package (configuration.py, git.py, case.py,   *)
(* dialog.py).                                                             *)
(*                                                                         *)
(* A Python str is a sequence of tokens; a token is a run of characters    *)
(* that the parsers of the program never split ("github.com", "name_0")    *)
(* or a single separator character ("@", ":", "/", ".", " ").  The empty   *)
(* str is << >>.  A Python dict is a sequence of [key, value] entries in   *)
(* insertion order; the options of a section and an identity are           *)
(* functions from the option names present to their values.                *)
(***************************************************************************)
EXTENDS Integers, Sequences, FiniteSets, TLC

\* Largest number of [passport N] sections of a configuration file.
MaxStore == 2
\* Largest number of lines the user types at the prompt.
MaxInputs == 2

EmptyStr == << >>
\* Python's None: a value no str equals (no str holds this token).
None == << "<None>" >>
\* Truth value of a str or None, as in `if email and name`.
Truthy(v) == v # None /\ v # EmptyStr

\* ----------------------------------------------------------------- dicts
DictKeys(d) == {d[i].key : i \in 1..Len(d)}
DictGet(d, k) == (CHOOSE i \in 1..Len(d) : d[i].key = k)
DictValue(d, k) == d[DictGet(d, k)].value
\* d[k] = v: an existing key keeps its position, a new key is appended.
DictSet(d, k, v) ==
    IF k \in DictKeys(d)
    THEN [d EXCEPT ![DictGet(d, k)] = [key |-> k, value |-> v]]
    ELSE Append(d, [key |-> k, value |-> v])

\* dict.get(k) == v for a str v: an absent key gives None, which equals no str.
GetEquals(d, k, v) == k \in DOMAIN d /\ d[k] = v
\* truth value of dict.get(k)
GetTruthy(d, k) == k \in DOMAIN d /\ Truthy(d[k])

\* ------------------------------------------------- the configuration file
NoFile == [exists |-> FALSE, sections |-> << >>]

Digits == {"0", "1", "2", "3", "7"}
Whitespace == {" "}

\* pattern_section = r"^(passport)\s[0-9]+$"
IsPassportSection(name) ==
    /\ Len(name) = 3
    /\ name[1] = "passport"
    /\ name[2] \in Whitespace
    /\ name[3] \in Digits

GeneralName == << "general" >>
PassportName(n) == << "passport", " ", n >>

whitelist_sections == {<< "general" >>, << "passport" >>}
whitelist_options ==
    {"email", "enable_hook", "name", "service", "sleep_duration", "no_remote"}

SectionsOf(f) == {f.sections[i] : i \in 1..Len(f.sections)}
HasSection(f, name) == \E s \in SectionsOf(f) : s.name = name
Section(f, name) == CHOOSE s \in SectionsOf(f) : s.name = name

\* configparser's BOOLEAN_STATES, looked up with value.lower()
Lower(t) ==
    CASE t = "True" -> "true"
      [] t = "False" -> "false"
      [] OTHER -> t
IsBoolean(v) ==
    /\ Len(v) = 1
    /\ Lower(v[1]) \in {"1", "yes", "true", "on", "0", "no", "false", "off"}
BooleanOf(v) == Lower(v[1]) \in {"1", "yes", "true", "on"}

\* float(): the literals of the model, in hundredths of a second.
IsFloat(v) == v \in {<< "0.75" >>, << "0" >>, << "-1" >>}
FloatOf(v) ==
    CASE v = << "0.75" >> -> 75
      [] v = << "0" >> -> 0
      [] v = << "-1" >> -> 0 - 100

\* re.match(r"[^@]+@[^@]+\.[^@]+", email): anchored at the start only.
EmailMatch(e) ==
    \E a \in 1..Len(e), b \in 1..Len(e) :
        /\ a >= 2
        /\ e[a] = "@"
        /\ \A i \in 1..(a - 1) : e[i] # "@"
        /\ b >= a + 2
        /\ e[b] = "."
        /\ \A i \in (a + 1)..(b - 1) : e[i] # "@"
        /\ b + 1 <= Len(e)
        /\ e[b + 1] # "@"

\* preset(): the sample file written when none exists.
SampleFile ==
    [exists |-> TRUE,
     sections |-> <<
        [name |-> GeneralName,
         options |-> [enable_hook |-> << "True" >>,
                      sleep_duration |-> << "0.75" >>]],
        [name |-> PassportName("0"),
         options |-> [email |-> << "email_0", "@", "example", ".", "com" >>,
                      name |-> << "name_0" >>,
                      service |-> << "github.com" >>]],
        [name |-> PassportName("1"),
         options |-> [email |-> << "email_1", "@", "example", ".", "com" >>,
                      name |-> << "name_1" >>,
                      service |-> << "gitlab.com" >>]],
        [name |-> PassportName("2"),
         options |-> [email |-> << "email_2", "@", "example", ".", "com" >>,
                      name |-> << "name_2" >>,
                      no_remote |-> << "true" >>,
                      service |-> << ".*" >>]] >>]

\* validate_scheme(): the names that are not whitelisted.
false_sections(f) ==
    {s.name : s \in {t \in SectionsOf(f) :
        t.name \notin whitelist_sections /\ ~IsPassportSection(t.name)}}
false_options(f) ==
    UNION {{o \in DOMAIN s.options : o \notin whitelist_options} :
           s \in SectionsOf(f)}
validate_scheme(f) == false_sections(f) = {} /\ false_options(f) = {}

\* validate_values().filter_section for one section: what the generator
\* does there: "raise" (NoOptionError), "yield" (an invalid value), "pass".
SectionEvent(s) ==
    IF ~IsPassportSection(s.name) THEN "pass"
    ELSE IF "email" \notin DOMAIN s.options THEN "raise"
    ELSE IF ~EmailMatch(s.options["email"]) THEN "yield"
    ELSE IF "no_remote" \in DOMAIN s.options /\ ~IsBoolean(s.options["no_remote"])
         THEN "yield"
    ELSE "pass"

RECURSIVE FirstEvent(_)
FirstEvent(secs) ==
    IF secs = << >> THEN "pass"
    ELSE IF SectionEvent(Head(secs)) # "pass" THEN SectionEvent(Head(secs))
    ELSE FirstEvent(Tail(secs))

\* validate_values(): "ok" (True), "invalid" (False) or "raise" (an uncaught
\* NoSectionError / NoOptionError).
validate_values(f) ==
    IF FirstEvent(f.sections) = "yield" THEN "invalid"
    ELSE IF FirstEvent(f.sections) = "raise" THEN "raise"
    ELSE IF ~HasSection(f, GeneralName) THEN "raise"
    ELSE IF "enable_hook" \notin DOMAIN Section(f, GeneralName).options THEN "raise"
    ELSE IF ~IsBoolean(Section(f, GeneralName).options["enable_hook"]) THEN "invalid"
    ELSE IF "sleep_duration" \notin DOMAIN Section(f, GeneralName).options THEN "raise"
    ELSE IF ~IsFloat(Section(f, GeneralName).options["sleep_duration"]) THEN "invalid"
    ELSE "ok"

\* validate_values(): the value the generator yields for a section, the first
\* section it yields for, and the message printed before return False.
SectionYield(s) ==
    IF ~EmailMatch(s.options["email"]) THEN s.options["email"]
    ELSE s.options["no_remote"]
RECURSIVE FirstYield(_)
FirstYield(secs) ==
    IF SectionEvent(Head(secs)) = "yield" THEN Head(secs)
    ELSE FirstYield(Tail(secs))
invalid_value(f) ==
    IF FirstEvent(f.sections) = "yield"
    THEN [msg |-> IF ~EmailMatch(FirstYield(f.sections).options["email"])
                  THEN "Invalid email address" ELSE "Invalid no_remote",
          listed |-> {SectionYield(FirstYield(f.sections))}]
    ELSE IF ~IsBoolean(Section(f, GeneralName).options["enable_hook"])
    THEN [msg |-> "enable_hook: Expecting True or False.",
          listed |-> {<< "enable_hook" >>}]
    ELSE [msg |-> "sleep_duration: Expecting float or number.",
          listed |-> {<< "sleep_duration" >>}]

\* release().passport: dict(section) with no_remote replaced by its boolean.
PassportOf(s) ==
    [k \in (DOMAIN s.options) \cup {"no_remote"} |->
        IF k = "no_remote"
        THEN ("no_remote" \in DOMAIN s.options /\ BooleanOf(s.options["no_remote"]))
        ELSE s.options[k]]

RECURSIVE Passports(_)
Passports(secs) ==
    IF secs = << >> THEN << >>
    ELSE IF IsPassportSection(Head(secs).name)
         THEN << PassportOf(Head(secs)) >> \o Passports(Tail(secs))
         ELSE Passports(Tail(secs))

\* dict(enumerate(...)): keys 0, 1, ... in declaration order.
Enumerate_FromOne(seq) == [i \in 1..Len(seq) |-> [key |-> i, value |-> seq[i]]]
Enumerate(seq) == [i \in 1..Len(seq) |-> [key |-> i - 1, value |-> seq[i]]]

release(f) ==
    [enable_hook |-> BooleanOf(Section(f, GeneralName).options["enable_hook"]),
     sleep_duration |-> FloatOf(Section(f, GeneralName).options["sleep_duration"]),
     git_passports |-> Enumerate(Passports(f.sections))]

\* ------------------------------------------------------------ git (git.py)
\* infected(): True for exit status 0, False (with the notice) for 128; any
\* other status falls off the end of the function, which returns None.
infected(status) ==
    CASE status = 0 -> "True"
      [] status = 128 -> "False"
      [] OTHER -> "None"

\* The repository's local configuration holds user.name and user.email
\* ("" = unset); the section [user] exists when one of them is set.
NoIdentity == [name |-> EmptyStr, email |-> EmptyStr]
UserSectionExists(l) == l.name # EmptyStr \/ l.email # EmptyStr
\* exit status of `git config --local --remove-section user`
RemoveStatus(l) == IF UserSectionExists(l) THEN 0 ELSE 128
\* config_remove(): the message printed when verbose
RemoveMessage_Swapped(status) ==
    CASE status = 0 -> "No passport set."
      [] status = 128 -> "Passport removed."
RemoveMessage(status) ==
    CASE status = 0 -> "Passport removed."
      [] status = 128 -> "No passport set."

\* --------------------------------------------------- urllib.parse.urlparse
\* scheme_chars: letters, digits and "+-."; these tokens hold other characters.
IsSchemeChars(t) == t \notin {"@", "/", ":", "?", "#", " "}
FirstIndex(u, chars) ==
    IF \E i \in 1..Len(u) : u[i] \in chars
    THEN CHOOSE i \in 1..Len(u) :
            u[i] \in chars /\ \A j \in 1..(i - 1) : u[j] \notin chars
    ELSE 0
\* urlsplit: a scheme is cut off when everything before the first ":" is
\* made of scheme_chars.
AfterScheme(u) ==
    LET i == FirstIndex(u, {":"})
    IN IF i > 1 /\ \A j \in 1..(i - 1) : IsSchemeChars(u[j])
       THEN SubSeq(u, i + 1, Len(u))
       ELSE u
\* urlparse(url)[1]: what follows a leading "//" up to the first of "/?#".
netloc(u) ==
    LET r == AfterScheme(u)
        rest == SubSeq(r, 3, Len(r))
        d == FirstIndex(rest, {"/", "?", "#"})
    IN IF Len(r) >= 2 /\ r[1] = "/" /\ r[2] = "/"
       THEN IF d = 0 THEN rest ELSE SubSeq(rest, 1, d - 1)
       ELSE EmptyStr

\* ------------------------------------------------------- case.py, dialog.py
\* url_exists().gen_candidates: the entries whose service is the netloc.
gen_candidates(ids, url) ==
    SelectSeq(ids, LAMBDA e : GetEquals(e.value, "service", url))

\* add_global_id(): g = [name, email] is what git prints for the global
\* user.name and user.email.
HasGlobal(g) == Truthy(g.email) /\ Truthy(g.name)
\* Variants of add_global_id(): the key is the last index instead of the
\* length; the entry is added whatever git printed.
add_global_id_LastIndex(local_passports, target, g) ==
    IF HasGlobal(g)
    THEN DictSet(target, Len(local_passports) - 1,
                 [email |-> g.email, name |-> g.name, flag |-> << "global" >>])
    ELSE target
add_global_id_Unconditional(local_passports, target, g) ==
    DictSet(target, Len(local_passports),
            [email |-> g.email, name |-> g.name, flag |-> << "global" >>])
\* Variant of add_global_id(): the entry is stored under two keys.
add_global_id_Twice(local_passports, target, g) ==
    IF HasGlobal(g)
    THEN DictSet(DictSet(target, Len(local_passports),
                         [email |-> g.email, name |-> g.name,
                          flag |-> << "global" >>]),
                 Len(local_passports) + 1,
                 [email |-> g.email, name |-> g.name, flag |-> << "global" >>])
    ELSE target
add_global_id(local_passports, target, g) ==
    IF HasGlobal(g)
    THEN DictSet(target, Len(local_passports),
                 [email |-> g.email, name |-> g.name, flag |-> << "global" >>])
    ELSE target

\* print_choice(): the blocks printed for one entry, in order.
ChoiceBlocks(e) ==
    (IF GetEquals(e.value, "flag", << "global" >>)
     THEN << [label |-> "Global passport", user |-> e.value["name"],
              email |-> e.value["email"], service |-> None] >>
     ELSE << >>)
    \o
    (IF GetTruthy(e.value, "service")
     THEN << [label |-> "Passport", user |-> e.value["name"],
              email |-> e.value["email"], service |-> e.value["service"]] >>
     ELSE << >>)

RECURSIVE print_choice(_)
print_choice(choice) ==
    IF choice = << >> THEN << >>
    ELSE ChoiceBlocks(Head(choice)) \o print_choice(Tail(choice))

\* int(selection): surrounding whitespace is stripped, a sign is allowed.
NumberValue(t) ==
    CASE t = "0" -> 0
      [] t = "1" -> 1
      [] t = "2" -> 2
      [] t = "3" -> 3
      [] t = "7" -> 7
      [] t = "99" -> 99
IsNumber(t) == t \in {"0", "1", "2", "3", "7", "99"}
RECURSIVE Strip(_)
Strip(s) ==
    IF s # << >> /\ Head(s) \in Whitespace THEN Strip(Tail(s))
    ELSE IF s # << >> /\ s[Len(s)] \in Whitespace THEN Strip(SubSeq(s, 1, Len(s) - 1))
    ELSE s
IsInt(line) ==
    LET s == Strip(line)
    IN \/ Len(s) = 1 /\ IsNumber(s[1])
       \/ Len(s) = 2 /\ s[1] \in {"+", "-"} /\ IsNumber(s[2])
IntOf(line) ==
    LET s == Strip(line)
    IN IF Len(s) = 1 THEN NumberValue(s[1])
       ELSE IF s[1] = "-" THEN 0 - NumberValue(s[2]) ELSE NumberValue(s[2])

\* One pass of get_input()'s loop over the line read: "return" with a key,
\* "quit" (return None) or "again" (the next pass).
\* Variant of get_input(): every integer is returned, in the pool or not.
get_input_AnyInteger(pool, line) ==
    IF IsInt(line)
    THEN [outcome |-> "return", selection |-> IntOf(line)]
    ELSE IF line = << "q" >> \/ line = << "quit" >>
         THEN [outcome |-> "quit", selection |-> 0 - 1]
         ELSE [outcome |-> "again", selection |-> 0 - 1]
\* Variant of get_input(): an integer up to the size of the pool is returned.
get_input_UpToSize(pool, line) ==
    IF IsInt(line)
    THEN IF IntOf(line) >= 0 /\ IntOf(line) <= Cardinality(pool)
         THEN [outcome |-> "return", selection |-> IntOf(line)]
         ELSE [outcome |-> "again", selection |-> 0 - 1]
    ELSE IF line = << "q" >> \/ line = << "quit" >>
         THEN [outcome |-> "quit", selection |-> 0 - 1]
         ELSE [outcome |-> "again", selection |-> 0 - 1]
get_input(pool, line) ==
    IF IsInt(line)
    THEN IF IntOf(line) \in pool
         THEN [outcome |-> "return", selection |-> IntOf(line)]
         ELSE [outcome |-> "again", selection |-> 0 - 1]
    ELSE IF line = << "q" >> \/ line = << "quit" >>
         THEN [outcome |-> "quit", selection |-> 0 - 1]
         ELSE [outcome |-> "again", selection |-> 0 - 1]

\* active_identity(): what is printed, and how the call ends: "True",
\* "False", or "raise" (time.sleep() rejects a negative duration).
active_identity(cfg, email, name) ==
    IF Truthy(email) /\ Truthy(name)
    THEN [msg |-> "Active Passport",
          result |-> IF cfg.sleep_duration < 0 THEN "raise" ELSE "True"]
    ELSE [msg |-> "No passport set.", result |-> "False"]

GlobalNote(g) ==
    IF HasGlobal(g) THEN << >> ELSE << "Note: no global Git ID" >>

\* url_exists(): the candidates returned, config["git_passports"] after the
\* call (the else branch hands the store itself to add_global_id) and the
\* messages printed.
url_exists(cfg, url, g) ==
    LET local_passports == cfg.git_passports
        matched == gen_candidates(local_passports, netloc(url))
        all == add_global_id(local_passports, local_passports, g)
    IN IF Len(matched) >= 1
       THEN [candidates |-> matched, git_passports |-> local_passports,
             stdout |-> << "One or more passports match" >>]
       ELSE [candidates |-> all, git_passports |-> all,
             stdout |-> << "Zero suitable passports found" >> \o GlobalNote(g)]

\* no_url_exists()
no_url_exists(cfg, g) ==
    LET all == add_global_id(cfg.git_passports, cfg.git_passports, g)
    IN [candidates |-> all, git_passports |-> all,
        stdout |-> << "remote.origin.url is not set" >> \o GlobalNote(g)]

\* ---------------------------------------------------------------- inputs
Flags == {"none", "select", "delete", "active", "passports"}

IndexToken(i) ==
    CASE i = 0 -> "0"
      [] i = 1 -> "1"
      [] i = 2 -> "2"
      [] OTHER -> "3"
NameOf(i) ==
    CASE i = 0 -> << "name_0" >>
      [] i = 1 -> << "name_1" >>
      [] i = 2 -> << "name_2" >>
      [] OTHER -> << "name_3" >>
EmailOf(i) ==
    CASE i = 0 -> << "email_0", "@", "example", ".", "com" >>
      [] i = 1 -> << "email_1", "@", "example", ".", "com" >>
      [] i = 2 -> << "email_2", "@", "example", ".", "com" >>
      [] OTHER -> << "email_3", "@", "example", ".", "com" >>

\* The i-th [passport N] section; None for an option that is not written.
PassportSection(i, o) ==
    [name |-> PassportName(IndexToken(i)),
     options |->
        [k \in {"email", "name"}
               \cup (IF o.service = None THEN {} ELSE {"service"})
               \cup (IF o.no_remote = None THEN {} ELSE {"no_remote"}) |->
            CASE k = "email" -> EmailOf(i)
              [] k = "name" -> NameOf(i)
              [] k = "service" -> o.service
              [] k = "no_remote" -> o.no_remote]]

ConfigFile(hook, sleep, passports) ==
    [exists |-> TRUE,
     sections |->
        << [name |-> GeneralName,
            options |-> [enable_hook |-> hook, sleep_duration |-> sleep]] >>
        \o passports]

\* Every list of at most MaxStore passport sections with options from opts.
PassportLists(opts) ==
    UNION {{[i \in 1..n |-> PassportSection(i - 1, c[i])] : c \in [1..n -> opts]} :
           n \in 0..MaxStore}

RunOptions ==
    {[service |-> None, no_remote |-> None],
     [service |-> << "github.com" >>, no_remote |-> None]}
SelectOptions ==
    {[service |-> s, no_remote |-> r] :
        s \in {None, << "github.com" >>, << "gitlab.com" >>, << ".*" >>},
        r \in {None, << "true" >>}}

BadSchemeFile ==
    ConfigFile(<< "True" >>, << "0.75" >>,
        << [name |-> << "Passport", " ", "0" >>,
            options |-> [email |-> EmailOf(0), name |-> NameOf(0)]] >>)
BadValueFile ==
    ConfigFile(<< "True" >>, << "0.75" >>,
        << [name |-> PassportName("0"),
            options |-> [email |-> << "email_0" >>, name |-> NameOf(0)]] >>)

\* The files of the load: a [general] section (or none) followed by at most
\* MaxStore further sections, numbered in order or out of order.
SectionNumber(scheme, i) ==
    IF scheme = "in order" THEN IndexToken(i - 1)
    ELSE CASE i = 1 -> "7"
           [] i = 2 -> "3"
           [] i = 3 -> "1"
           [] OTHER -> "0"
BadEmailOf(i) == << "bad", IndexToken(i) >>
SectionKinds ==
    {"full", "plain", "no_remote", "bad_email", "no_email", "no_name",
     "empty_name", "foo", "hook_key", "bad_no_remote", "wrong_case", "bare",
     "trailing_email"}
LoadSectionName(kind, n) ==
    CASE kind = "wrong_case" -> << "Passport", " ", n >>
      [] kind = "bare" -> << "passport" >>
      [] OTHER -> PassportName(n)
LoadSectionOptions(kind, i) ==
    CASE kind = "full" ->
            [email |-> EmailOf(i), name |-> NameOf(i), service |-> << "github.com" >>]
      [] kind = "no_remote" ->
            [email |-> EmailOf(i), name |-> NameOf(i), no_remote |-> << "true" >>]
      [] kind = "bad_email" -> [email |-> BadEmailOf(i), name |-> NameOf(i)]
      [] kind = "trailing_email" ->
            [email |-> << "a", "@", "b", ".", "c", "@", "d" >>, name |-> NameOf(i)]
      [] kind = "no_email" -> [name |-> NameOf(i)]
      [] kind = "no_name" -> [email |-> EmailOf(i)]
      [] kind = "empty_name" -> [email |-> EmailOf(i), name |-> EmptyStr]
      [] kind = "foo" -> [email |-> EmailOf(i), name |-> NameOf(i), foo |-> << "x" >>]
      [] kind = "hook_key" ->
            [email |-> EmailOf(i), name |-> NameOf(i), enable_hook |-> << "True" >>]
      [] kind = "bad_no_remote" ->
            [email |-> EmailOf(i), name |-> NameOf(i), no_remote |-> << "maybe" >>]
      [] OTHER -> [email |-> EmailOf(i), name |-> NameOf(i)]
LoadSection(kind, scheme, i) ==
    [name |-> LoadSectionName(kind, SectionNumber(scheme, i)),
     options |-> LoadSectionOptions(kind, i - 1)]
GeneralKinds ==
    {"ok", "off", "bad_hook", "bad_sleep", "negative", "foo", "email_key", "none"}
LoadGeneral(kind) ==
    CASE kind = "none" -> << >>
      [] kind = "off" ->
            << [name |-> GeneralName,
                options |-> [enable_hook |-> << "no" >>, sleep_duration |-> << "0" >>]] >>
      [] kind = "bad_hook" ->
            << [name |-> GeneralName,
                options |-> [enable_hook |-> << "maybe" >>, sleep_duration |-> << "0.75" >>]] >>
      [] kind = "bad_sleep" ->
            << [name |-> GeneralName,
                options |-> [enable_hook |-> << "True" >>, sleep_duration |-> << "abc" >>]] >>
      [] kind = "negative" ->
            << [name |-> GeneralName,
                options |-> [enable_hook |-> << "True" >>, sleep_duration |-> << "-1" >>]] >>
      [] kind = "foo" ->
            << [name |-> GeneralName,
                options |-> [enable_hook |-> << "True" >>, sleep_duration |-> << "0.75" >>,
                             foo |-> << "x" >>]] >>
      [] kind = "email_key" ->
            << [name |-> GeneralName,
                options |-> [enable_hook |-> << "True" >>, sleep_duration |-> << "0.75" >>,
                             email |-> EmailOf(0)]] >>
      [] OTHER ->
            << [name |-> GeneralName,
                options |-> [enable_hook |-> << "True" >>, sleep_duration |-> << "0.75" >>]] >>
\* configparser is strict: a file is read only when no section name repeats.
NoDuplicate(secs) ==
    \A i, j \in 1..Len(secs) : secs[i].name = secs[j].name => i = j
NumberSchemes == {"in order", "out of order"}
LoadFile(g, scheme, k) ==
    [exists |-> TRUE,
     sections |-> LoadGeneral(g)
        \o [i \in DOMAIN k |-> LoadSection(k[i], scheme, i)]]

\* (a negative sleep_duration matters to the display of the active identity
\* only, which does not read the store: it comes with at most one passport)
RunFiles ==
    {NoFile, BadSchemeFile, BadValueFile}
    \cup {ConfigFile(h, << "0.75" >>, p) :
            h \in {<< "True" >>, << "False" >>},
            p \in PassportLists(RunOptions)}
    \cup {ConfigFile(<< "True" >>, << "-1" >>, p) :
            p \in {q \in PassportLists(RunOptions) : Len(q) <= 1}}
SelectFiles ==
    {ConfigFile(<< "True" >>, << "0.75" >>, p) : p \in PassportLists(SelectOptions)}

\* remote.origin.url: unset, or one of the forms that name host h.
UrlForms(h) ==
    {<< "https", ":", "/", "/", h, "/", "repo" >>,
     << "https", ":", "/", "/", h, ":", "8080", "/", "repo" >>,
     << "ssh", ":", "/", "/", "git", "@", h, "/", "repo" >>,
     << "git", "@", h, ":", "repo" >>}
Hosts == {"github.com", "gitlab.com"}
SelectUrls == {EmptyStr} \cup UNION {UrlForms(h) : h \in Hosts}
RunUrls ==
    {EmptyStr,
     << "https", ":", "/", "/", "github.com", "/", "repo" >>,
     << "git", "@", "github.com", ":", "repo" >>}

\* git config --global user.name / user.email
Globals ==
    {[name |-> n, email |-> e] :
        n \in {EmptyStr, << "G" >>},
        e \in {EmptyStr, << "g", "@", "x", ".", "com" >>}}

LocalIdentities ==
    {[name |-> n, email |-> e] :
        n \in {EmptyStr, << "old_name" >>},
        e \in {EmptyStr, << "old", "@", "example", ".", "com" >>}}

ExitStatuses == {0, 1, 128}

InputLines ==
    {<< "q" >>, << "quit" >>, << "x" >>, << "Q" >>, << "0" >>, << "1" >>,
     << "2" >>, << "99" >>, << " ", "1" >>}

\* ----------------------------------------------------------------- state
VARIABLES
    flag,         \* the command-line flag of the run
    startId,      \* localId when the run started
    is_repo,      \* what git_infected() returned
    globalId,     \* user.name / user.email of git's global configuration
    file,         \* ~/.gitpassport
    localId,      \* user.name / user.email of the repository's local config
    inflight,     \* spawned `git config --local user.<property> <value>`
    pc,           \* position of the script
    exitCode,     \* exit code of the process, -1 while it runs
    config,       \* config (after release)
    local_email,  \* script variables of __main__
    local_name,
    local_url,
    candidates,
    selected_id,  \* what get_input returned
    stdout,       \* messages printed, in order
    shown,        \* blocks printed by print_choice
    consumed,     \* lines read from /dev/tty, in order
    sys_stdin,    \* "stdin" (sys.__stdin__) or "tty"
    reported      \* the names or values listed in the error message printed

vars ==
    << flag, startId, is_repo, globalId, file, localId, inflight, pc, exitCode, config, local_email,
       local_name, local_url, candidates, selected_id, stdout, shown,
       consumed, sys_stdin, reported >>

NoConfig == [loaded |-> FALSE]
NoSelection == [outcome |-> "none", selection |-> 0 - 1]

Start(fl, f, l, g) ==
    /\ flag = fl
    /\ file = f
    /\ localId = l
    /\ startId = l
    /\ is_repo = "unknown"
    /\ globalId = g
    /\ inflight = {}
    /\ exitCode = 0 - 1
    /\ config = NoConfig
    /\ local_email = EmptyStr
    /\ local_name = EmptyStr
    /\ local_url = EmptyStr
    /\ candidates = << >>
    /\ selected_id = NoSelection
    /\ stdout = << >>
    /\ shown = << >>
    /\ consumed = << >>
    /\ sys_stdin = "stdin"
    /\ reported = {}

Init ==
    /\ pc = "preset"
    /\ \E fl \in Flags, f \in RunFiles, l \in LocalIdentities, g \in Globals :
            Start(fl, f, l, g)

\* ------------------------------------------------------- __main__ (glue)
\* sys.exit(code) after printing msgs; an uncaught exception prints a
\* traceback and ends the process with code 1.
Exit(code, msgs) ==
    /\ pc' = "exited"
    /\ exitCode' = code
    /\ stdout' = stdout \o msgs
    /\ UNCHANGED reported

\* return False after an error message listing names; sys.exit(1)
Reject(msg, names) ==
    /\ pc' = "exited"
    /\ exitCode' = 1
    /\ stdout' = stdout \o << msg >>
    /\ reported' = names

Goto(next, msgs) ==
    /\ pc' = next
    /\ stdout' = stdout \o msgs
    /\ UNCHANGED << exitCode, reported >>

\* Variant of the startup checks: the run goes on after the sample file
\* is written.
Preset_GoesOn ==
    /\ pc = "preset"
    /\ file' = IF file.exists THEN file ELSE SampleFile
    /\ Goto("validate_scheme",
            IF file.exists THEN << >> ELSE << "No configuration file found" >>)
    /\ UNCHANGED << flag, startId, is_repo, globalId, localId, inflight,
                    config, local_email, local_name, local_url, candidates,
                    selected_id, shown, consumed, sys_stdin >>
\* not config_preset(config_file)
Preset ==
    /\ pc = "preset"
    /\ IF file.exists
       THEN /\ Goto("validate_scheme", << >>)
            /\ UNCHANGED file
       ELSE /\ file' = SampleFile
            /\ Exit(1, << "No configuration file found" >>)
    /\ UNCHANGED << flag, startId, is_repo, globalId, localId, inflight,
                    config, local_email, local_name, local_url, candidates,
                    selected_id, shown, consumed, sys_stdin >>

\* not config_validate_scheme(config_file)
ValidateScheme ==
    /\ pc = "validate_scheme"
    /\ IF validate_scheme(file)
       THEN Goto("validate_values", << >>)
       ELSE IF false_sections(file) # {}
            THEN Reject("Invalid sections", false_sections(file))
            ELSE Reject("Invalid options", {<< o >> : o \in false_options(file)})
    /\ UNCHANGED << flag, startId, is_repo, globalId, file, localId,
                    inflight, config, local_email, local_name, local_url,
                    candidates, selected_id, shown, consumed, sys_stdin >>

\* Variant of the startup checks: a file that fails value validation is
\* reported and the run goes on.
ValidateValues_GoesOn ==
    /\ pc = "validate_values"
    /\ Goto("infected",
            IF validate_values(file) = "ok" THEN << >>
            ELSE << invalid_value(file).msg >>)
    /\ UNCHANGED << flag, startId, is_repo, globalId, file, localId,
                    inflight, config, local_email, local_name, local_url,
                    candidates, selected_id, shown, consumed, sys_stdin >>
\* not config_validate_values(config_file)
ValidateValues ==
    /\ pc = "validate_values"
    /\ CASE validate_values(file) = "ok" -> Goto("infected", << >>)
         [] validate_values(file) = "invalid" ->
                Reject(invalid_value(file).msg, invalid_value(file).listed)
         [] OTHER -> Exit(1, << "Traceback" >>)
    /\ UNCHANGED << flag, startId, is_repo, globalId, file, localId,
                    inflight, config, local_email, local_name, local_url,
                    candidates, selected_id, shown, consumed, sys_stdin >>

\* not git_infected(): status is the exit status of git rev-parse.
Infected(status) ==
    /\ pc = "infected"
    /\ is_repo' = infected(status)
    /\ CASE infected(status) = "True" -> Goto("release", << >>)
         [] infected(status) = "False" -> Exit(1, << "Not a Git repository" >>)
         [] OTHER -> Exit(1, << >>)
    /\ UNCHANGED << flag, startId, globalId, file, localId, inflight, config,
                    local_email, local_name, local_url, candidates,
                    selected_id, shown, consumed, sys_stdin >>

\* config = config_release(config_file)
Release ==
    /\ pc = "release"
    /\ config' = release(file)
    /\ Goto("enable_hook", << >>)
    /\ UNCHANGED << flag, startId, is_repo, globalId, file, localId,
                    inflight, local_email, local_name, local_url, candidates,
                    selected_id, shown, consumed, sys_stdin >>

\* else: print("git-passport is currently disabled."); sys.exit(1)
Disabled_ExitsZero ==
    /\ pc = "enable_hook"
    /\ ~config.enable_hook
    /\ Exit(0, << "git-passport is currently disabled." >>)
    /\ UNCHANGED << flag, startId, is_repo, globalId, file, localId,
                    inflight, config, local_email, local_name, local_url,
                    candidates, selected_id, shown, consumed, sys_stdin >>
Disabled ==
    /\ pc = "enable_hook"
    /\ ~config.enable_hook
    /\ Exit(1, << "git-passport is currently disabled." >>)
    /\ UNCHANGED << flag, startId, is_repo, globalId, file, localId,
                    inflight, config, local_email, local_name, local_url,
                    candidates, selected_id, shown, consumed, sys_stdin >>

\* The three git_config_get(config, "local", ...) calls; url is what git
\* prints for remote.origin.url.
ReadLocal(url) ==
    /\ pc = "enable_hook"
    /\ config.enable_hook
    /\ local_email' = localId.email
    /\ local_name' = localId.name
    /\ local_url' = url
    /\ Goto("args", << >>)
    /\ UNCHANGED << flag, startId, is_repo, globalId, file, localId,
                    inflight, config, candidates, selected_id, shown,
                    consumed, sys_stdin >>

\* if args.select: forget the local identity and remove it, silently.
\* Variant of the --select branch: git_config_remove() is not called.
ArgSelect_KeepsIdentity ==
    /\ pc = "args"
    /\ flag = "select"
    /\ local_name' = None
    /\ local_email' = None
    /\ Goto("identity", << >>)
    /\ UNCHANGED << flag, startId, is_repo, globalId, file, localId, inflight,
                    config, local_url, candidates, selected_id, shown,
                    consumed, sys_stdin >>
ArgSelect ==
    /\ pc = "args"
    /\ flag = "select"
    /\ local_name' = None
    /\ local_email' = None
    /\ localId' = NoIdentity
    /\ Goto("identity", << >>)
    /\ UNCHANGED << flag, startId, is_repo, globalId, file, inflight, config,
                    local_url, candidates, selected_id, shown, consumed,
                    sys_stdin >>

\* if args.delete: git_config_remove(); sys.exit(0)
ArgDelete ==
    /\ pc = "args"
    /\ flag = "delete"
    /\ localId' = NoIdentity
    /\ Exit(0, << RemoveMessage(RemoveStatus(localId)) >>)
    /\ UNCHANGED << flag, startId, is_repo, globalId, file, inflight, config,
                    local_email, local_name, local_url, candidates,
                    selected_id, shown, consumed, sys_stdin >>

\* The end of a run that called active_identity() and then sys.exit(0).
ShowActive ==
    LET r == active_identity(config, local_email, local_name)
    IN IF r.result = "raise"
       THEN Exit(1, << r.msg, "Traceback" >>)
       ELSE Exit(0, << r.msg >>)

\* if args.active: active_identity(..., style="compact"); sys.exit(0)
ArgActive ==
    /\ pc = "args"
    /\ flag = "active"
    /\ ShowActive
    /\ UNCHANGED << flag, startId, is_repo, globalId, file, localId,
                    inflight, config, local_email, local_name, local_url,
                    candidates, selected_id, shown, consumed, sys_stdin >>

\* if args.passports: print_choice(config["git_passports"]); exit(0)
ArgPassports ==
    /\ pc = "args"
    /\ flag = "passports"
    /\ shown' = print_choice(config.git_passports)
    /\ Exit(0, << >>)
    /\ UNCHANGED << flag, startId, is_repo, globalId, file, localId,
                    inflight, config, local_email, local_name, local_url,
                    candidates, selected_id, consumed, sys_stdin >>

\* No flag: none of the four branches is taken.
ArgNone ==
    /\ pc = "args"
    /\ flag = "none"
    /\ Goto("identity", << >>)
    /\ UNCHANGED << flag, startId, is_repo, globalId, file, localId,
                    inflight, config, local_email, local_name, local_url,
                    candidates, selected_id, shown, consumed, sys_stdin >>

\* if local_email and local_name: active_identity(...); sys.exit(0)
ActiveIdentity ==
    /\ pc = "identity"
    /\ Truthy(local_email) /\ Truthy(local_name)
    /\ ShowActive
    /\ UNCHANGED << flag, startId, is_repo, globalId, file, localId,
                    inflight, config, local_email, local_name, local_url,
                    candidates, selected_id, shown, consumed, sys_stdin >>

\* The candidates of a selector call r become the script's candidates.
Selected(r) ==
    /\ candidates' = r.candidates
    /\ config' = [config EXCEPT !.git_passports = r.git_passports]
    /\ shown' = print_choice(r.candidates)
    /\ Goto("input", r.stdout)

\* if local_url: candidates = url_exists(config, local_url)
UrlExists ==
    /\ pc = "identity"
    /\ ~(Truthy(local_email) /\ Truthy(local_name))
    /\ Truthy(local_url)
    /\ Selected(url_exists(config, local_url, globalId))
    /\ UNCHANGED << flag, startId, is_repo, globalId, file, localId,
                    inflight, local_email, local_name, local_url,
                    selected_id, consumed, sys_stdin >>

\* else: candidates = no_url_exists(config)
NoUrlExists ==
    /\ pc = "identity"
    /\ ~(Truthy(local_email) /\ Truthy(local_name))
    /\ ~Truthy(local_url)
    /\ Selected(no_url_exists(config, globalId))
    /\ UNCHANGED << flag, startId, is_repo, globalId, file, localId,
                    inflight, local_email, local_name, local_url,
                    selected_id, consumed, sys_stdin >>

\* selected_id = get_user_input(candidates.keys()): one pass of the loop,
\* reading line from the terminal.  A key goes on to the commit; quit leaves
\* selected_id None, and the script ends (exit code 0).
\* Variant of the chooser step: quit ends the process with code 1.
GetInput_QuitIsAnError(line) ==
    /\ pc = "input"
    /\ Len(consumed) < MaxInputs
    /\ consumed' = Append(consumed, line)
    /\ selected_id' = get_input(DictKeys(candidates), line)
    /\ sys_stdin' = "stdin"
    /\ CASE selected_id'.outcome = "return" -> Goto("commit_email", << >>)
         [] selected_id'.outcome = "quit" -> Exit(1, << >>)
         [] OTHER -> Goto("input", << >>)
    /\ UNCHANGED << flag, startId, is_repo, globalId, file, localId,
                    inflight, config, local_email, local_name, local_url,
                    candidates, shown >>
GetInput(line) ==
    /\ pc = "input"
    /\ Len(consumed) < MaxInputs
    /\ consumed' = Append(consumed, line)
    /\ selected_id' = get_input(DictKeys(candidates), line)
    /\ sys_stdin' = "stdin"
    /\ CASE selected_id'.outcome = "return" -> Goto("commit_email", << >>)
         [] selected_id'.outcome = "quit" -> Exit(0, << >>)
         [] OTHER -> Goto("input", << >>)
    /\ UNCHANGED << flag, startId, is_repo, globalId, file, localId,
                    inflight, config, local_email, local_name, local_url,
                    candidates, shown >>

\* get_input() at the end of the terminal's input: sys.stdin is assigned the
\* terminal and input() raises EOFError, both before the try statement, so
\* its finally clause does not run and the exception ends the script.
GetInputEOF ==
    /\ pc = "input"
    /\ sys_stdin' = "tty"
    /\ Exit(1, << "Traceback" >>)
    /\ UNCHANGED << flag, startId, is_repo, globalId, file, localId,
                    inflight, config, local_email, local_name, local_url,
                    candidates, selected_id, shown, consumed >>

\* config_set(): git is spawned and not waited for.
config_set(value, property) ==
    inflight' = inflight \cup {[property |-> property, value |-> value]}

\* git_config_set(config, candidates[selected_id]["email"], "email")
CommitEmail ==
    /\ pc = "commit_email"
    /\ config_set(DictValue(candidates, selected_id.selection)["email"], "email")
    /\ Goto("commit_name", << >>)
    /\ UNCHANGED << flag, startId, is_repo, globalId, file, localId, config,
                    local_email, local_name, local_url, candidates,
                    selected_id, shown, consumed, sys_stdin >>

\* git_config_set(config, candidates[selected_id]["name"], "name"); sys.exit(0)
CommitName ==
    /\ pc = "commit_name"
    /\ config_set(DictValue(candidates, selected_id.selection)["name"], "name")
    /\ Exit(0, << >>)
    /\ UNCHANGED << flag, startId, is_repo, globalId, file, localId, config,
                    local_email, local_name, local_url, candidates,
                    selected_id, shown, consumed, sys_stdin >>

\* A spawned git config process writes its value and terminates.
GitWrite(w) ==
    /\ w \in inflight
    /\ inflight' = inflight \ {w}
    /\ localId' = [localId EXCEPT ![w.property] = w.value]
    /\ UNCHANGED << flag, startId, is_repo, globalId, file, pc, exitCode,
                    config, local_email, local_name, local_url, candidates,
                    selected_id, stdout, shown, consumed, sys_stdin,
                    reported >>

\* A spawned git config process finds .git/config locked by the other one
\* and terminates without writing.
GitWriteFails(w) ==
    /\ w \in inflight
    /\ inflight # {w}
    /\ inflight' = inflight \ {w}
    /\ UNCHANGED << flag, startId, is_repo, globalId, file, localId, pc,
                    exitCode, config, local_email, local_name, local_url,
                    candidates, selected_id, stdout, shown, consumed,
                    sys_stdin, reported >>

Writes ==
    {[property |-> p, value |-> v] :
        p \in {"email", "name"},
        v \in {EmailOf(i) : i \in 0..MaxStore} \cup {NameOf(i) : i \in 0..MaxStore}
              \cup UNION {{g.name, g.email} : g \in Globals}}

Next ==
    \/ Preset
    \/ ValidateScheme
    \/ ValidateValues
    \/ \E status \in ExitStatuses : Infected(status)
    \/ Release
    \/ Disabled
    \/ \E url \in RunUrls : ReadLocal(url)
    \/ ArgSelect
    \/ ArgDelete
    \/ ArgActive
    \/ ArgPassports
    \/ ArgNone
    \/ ActiveIdentity
    \/ UrlExists
    \/ NoUrlExists
    \/ \E line \in InputLines : GetInput(line)
    \/ GetInputEOF
    \/ CommitEmail
    \/ CommitName
    \/ \E w \in Writes : GitWrite(w)
    \/ \E w \in Writes : GitWriteFails(w)

Spec == Init /\ [][Next]_vars

\* The script is one sequential thread and none of its calls between two
\* prompts blocks: every step but the read of the terminal is taken once it
\* is enabled. Nothing is assumed about the user or the spawned processes.
ScriptStep ==
    \/ Preset
    \/ ValidateScheme
    \/ ValidateValues
    \/ \E status \in ExitStatuses : Infected(status)
    \/ Release
    \/ Disabled
    \/ \E url \in RunUrls : ReadLocal(url)
    \/ ArgSelect
    \/ ArgDelete
    \/ ArgActive
    \/ ArgPassports
    \/ ArgNone
    \/ ActiveIdentity
    \/ UrlExists
    \/ NoUrlExists
    \/ CommitEmail
    \/ CommitName
\* The runs up to the chooser and through it: what is typed at the chooser
\* has no part in how the chooser is reached, so a quit, a key and
\* a line that is neither stand for the lines typed; the terminal may also
\* be at its end of input.
ReachLines == {<< "q" >>, << "0" >>, << "x" >>}
ReachNext ==
    \/ ScriptStep
    \/ \E line \in ReachLines : GetInput(line)
    \/ GetInputEOF
    \/ \E w \in Writes : GitWrite(w)
    \/ \E w \in Writes : GitWriteFails(w)
FairSpec == Init /\ [][ReachNext]_vars /\ WF_vars(ScriptStep)

\* The load alone, over no file and every file LoadFile builds: the
\* startup checks of __main__ up to config_release().
LoadInit ==
    /\ pc = "preset"
    /\ \/ Start("none", NoFile, NoIdentity, NoIdentity)
       \/ \E n \in 0..MaxStore :
            \E g \in GeneralKinds, scheme \in NumberSchemes,
               k \in [1..n -> SectionKinds] :
                /\ NoDuplicate(LoadFile(g, scheme, k).sections)
                /\ Start("none", LoadFile(g, scheme, k), NoIdentity, NoIdentity)
LoadNext ==
    \/ Preset
    \/ ValidateScheme
    \/ ValidateValues
    \/ \E status \in ExitStatuses : Infected(status)
    \/ Release
SpecLoad == LoadInit /\ [][LoadNext]_vars

\* The selector alone, over every store and remote URL of the bounds: the
\* run of a valid, enabled configuration with no flag and no local identity,
\* at the point where it computes the candidates.
SelectInit ==
    /\ pc = "identity"
    /\ \E f \in SelectFiles, url \in SelectUrls, g \in Globals :
        /\ flag = "none"
        /\ file = f
        /\ localId = NoIdentity
        /\ startId = NoIdentity
        /\ is_repo = "True"
        /\ globalId = g
        /\ inflight = {}
        /\ exitCode = 0 - 1
        /\ config = release(f)
        /\ local_email = EmptyStr
        /\ local_name = EmptyStr
        /\ local_url = url
        /\ candidates = << >>
        /\ selected_id = NoSelection
        /\ stdout = << >>
        /\ shown = << >>
        /\ consumed = << >>
        /\ sys_stdin = "stdin"
        /\ reported = {}

SelectNext ==
    \/ UrlExists
    \/ NoUrlExists

SpecSelect == SelectInit /\ [][SelectNext]_vars

\* ------------------------------------------------------------ properties
\* The identity store as loaded from the configuration file.
Store == release(file).git_passports
Entries(d) == {d[i] : i \in 1..Len(d)}
IsGlobalEntry(e) == GetEquals(e.value, "flag", << "global" >>)
GlobalEntry ==
    [key |-> Len(Store),
     value |-> [name |-> globalId.name, email |-> globalId.email,
                flag |-> << "global" >>]]

\* The host component of a remote URL: of scheme://[user@]host[:port]/path
\* and of [user@]host:path.
UrlAuthority(u) ==
    LET i == FirstIndex(u, {"/"})
        r == SubSeq(u, i + 2, Len(u))
        d == FirstIndex(r, {"/"})
        c == FirstIndex(u, {":"})
    IN IF i > 0 /\ i < Len(u) /\ u[i + 1] = "/"
       THEN IF d = 0 THEN r ELSE SubSeq(r, 1, d - 1)
       ELSE IF c = 0 THEN EmptyStr ELSE SubSeq(u, 1, c - 1)
UrlHost(u) ==
    LET a == UrlAuthority(u)
        b == SubSeq(a, FirstIndex(a, {"@"}) + 1, Len(a))
    IN IF b = << >> THEN EmptyStr ELSE << b[1] >>

ServiceIsHost(e, url) == GetEquals(e.value, "service", UrlHost(url))
\* The host step of the selection: the service is the host, or no_remote.
InHostStep(e, url) == ServiceIsHost(e, url) \/ e.value["no_remote"]
HostStep(store, url) == SelectSeq(store, LAMBDA e : InHostStep(e, url))

\* A global identity is discoverable: the global name and email are set.
GlobalSet == globalId.name # EmptyStr /\ globalId.email # EmptyStr

\* The selector has run on a repository with a remote URL / without one.
SelectedWithUrl == pc = "input" /\ Truthy(local_url)
SelectedWithoutUrl == pc = "input" /\ ~Truthy(local_url)

\* C1: with a remote URL, whenever the service of some stored identity is
\* the URL's host, the candidates are exactly the identities of the host
\* step, under their store keys and in declaration order, and none of them
\* is the global identity.
C1_HostMatchIsAuthoritative ==
    (SelectedWithUrl /\ \E e \in Entries(Store) : ServiceIsHost(e, local_url))
    => /\ candidates = HostStep(Store, local_url)
       /\ \A e \in Entries(candidates) : ~IsGlobalEntry(e)

\* C2: with a remote URL, a stored identity is a candidate of the host step
\* if and only if its service is the URL's host or its no_remote flag is
\* true; one no_remote identity is enough for the host step to stand, with
\* no fall-through to all identities and the global one.
C2_SelectedIffHostOrNoRemote ==
    (SelectedWithUrl /\ \E e \in Entries(Store) : InHostStep(e, local_url))
    => /\ \A e \in Entries(Store) :
            e \in Entries(candidates) <=> InHostStep(e, local_url)
       /\ Entries(candidates) \subseteq Entries(Store)

C4_NoUrlNoGlobal ==
    [][(pc = "identity" /\ local_url = EmptyStr /\ ~GlobalSet)
       => /\ candidates' = Store
          /\ stdout'[Len(stdout')] = "Note: no global Git ID"
          /\ pc' = "input"
          /\ exitCode' = 0 - 1]_vars

C4_Witness ==
    /\ SelectedWithoutUrl
    /\ ~GlobalSet
    /\ globalId.name # EmptyStr
    /\ Len(Store) = 2
    /\ candidates = Store

\* C5: the chooser is decided by the first line that is "q" or "quit"
\* (quit) or an integer that is a key of the candidates (that key): while
\* no such line was read it prompts again (a prompt that finds the end of
\* input ends the run), and once one was read nothing more is read.
Deciding(line) ==
    \/ line \in {<< "q" >>, << "quit" >>}
    \/ IsInt(line) /\ IntOf(line) \in DictKeys(candidates)
ChooserResult(line) ==
    IF line \in {<< "q" >>, << "quit" >>}
    THEN [outcome |-> "quit", selection |-> 0 - 1]
    ELSE [outcome |-> "return", selection |-> IntOf(line)]
\* The prompt that followed found the terminal at its end of input.
EndOfInput ==
    pc = "exited" /\ stdout # << >> /\ stdout[Len(stdout)] = "Traceback"
C5_FirstDecidingInput ==
    LET n == Len(consumed)
    IN /\ \A i \in 1..(n - 1) : ~Deciding(consumed[i])
       /\ (n >= 1 /\ Deciding(consumed[n]))
          => (selected_id = ChooserResult(consumed[n]) /\ pc # "input")
       /\ (n >= 1 /\ ~Deciding(consumed[n]))
          => (selected_id.outcome = "again" /\ (pc = "input" \/ EndOfInput))
       /\ selected_id.outcome \in {"return", "quit"}
          => (n >= 1 /\ Deciding(consumed[n]))

C5_Witness ==
    /\ consumed = << << "99" >>, << "2" >> >>
    /\ DictKeys(candidates) = {0, 1, 2}
    /\ selected_id = [outcome |-> "return", selection |-> 2]

\* The run passed the startup checks: the configuration is loaded and the
\* hook is enabled, so the script reached the dispatch on the flags.
PassedStartup == config # NoConfig /\ config.enable_hook
IdentitySet(l) == l.name # EmptyStr /\ l.email # EmptyStr
\* Neither the selector nor the chooser ran.
NoSelectionFlow ==
    /\ candidates = << >>
    /\ consumed = << >>
    /\ selected_id = NoSelection
    /\ pc # "input"

\* C6: a run in which the user answers quit exits with code 0 and leaves the
\* local user.name and user.email as they were when the run started, with no
\* flag and with --select.
C6_QuitLeavesLocalIdentity ==
    selected_id.outcome = "quit"
    => (pc = "exited" /\ exitCode = 0 /\ localId = startId)

\* C6, amended: a run in which the user answers quit exits with code 0 and
\* writes no identity; with no flag the local user.name and user.email are
\* the ones of the start, with --select both are unset, removed before the
\* chooser ran.
C6_QuitWritesNothing ==
    selected_id.outcome = "quit"
    => /\ pc = "exited"
       /\ exitCode = 0
       /\ inflight = {}
       /\ flag \in {"none", "select"}
       /\ flag = "none" => localId = startId
       /\ flag = "select" => localId = NoIdentity

C6_Witness ==
    /\ selected_id.outcome = "quit"
    /\ flag = "select"
    /\ IdentitySet(startId)
    /\ localId = NoIdentity
    /\ pc = "exited"

\* C7: with --select, past the startup checks, the local identity is removed
\* before the candidates are computed, the run never ends by showing the
\* active identity, and its next stop after the removal is the chooser,
\* whatever the local identity was at the start.
C7_SelectForcesReselection ==
    /\ [][(flag = "select" /\ pc = "args")
          => (pc' = "identity" /\ localId' = NoIdentity /\ candidates' = << >>)]_vars
    /\ [][(flag = "select" /\ pc = "identity")
          => (localId = NoIdentity /\ pc' = "input")]_vars
    /\ []((flag = "select" /\ PassedStartup /\ pc = "exited")
          => ((selected_id.outcome \in {"return", "quit"} \/ EndOfInput)
              /\ \A i \in 1..Len(stdout) : stdout[i] # "Active Passport"))
    /\ (flag = "select" /\ pc = "args") ~> (pc = "input")

C7_Witness ==
    /\ flag = "select"
    /\ IdentitySet(startId)
    /\ pc = "input"
    /\ localId = NoIdentity
    /\ candidates # << >>

\* C8: --delete, past the startup checks: with a local identity set, both
\* fields are unset afterwards and "removed" is reported; with none set the
\* local configuration is unchanged and "not set" is reported; either way
\* the exit code is 0, the chooser does not run and nothing is written.
C8_Delete ==
    (flag = "delete" /\ PassedStartup /\ pc = "exited")
    => /\ exitCode = 0
       /\ NoSelectionFlow
       /\ inflight = {}
       /\ IdentitySet(startId)
          => (localId = NoIdentity /\ stdout = << "Passport removed." >>)
       /\ startId = NoIdentity
          => (localId = startId /\ stdout = << "No passport set." >>)

C8_Witness ==
    /\ flag = "delete"
    /\ pc = "exited"
    /\ IdentitySet(startId)
    /\ localId = NoIdentity
    /\ stdout = << "Passport removed." >>

\* C9: past the startup checks, a run with --active, a run with --passports
\* and a run with no flag on a repository whose local name and email are set
\* exit with code 0, run neither the selector nor the chooser, and write or
\* remove nothing in the local configuration.
C9_DisplayRunsAreReadOnly ==
    (/\ PassedStartup
     /\ pc = "exited"
     /\ \/ flag \in {"active", "passports"}
        \/ flag = "none" /\ IdentitySet(startId))
    => /\ exitCode = 0
       /\ NoSelectionFlow
       /\ inflight = {}
       /\ localId = startId

\* C10: with any flag, when the hook is disabled in the settings or the
\* directory is not a git repository, the run exits with code 1, writes and
\* removes nothing in the local configuration and does not run the chooser.
HookDisabledInFile ==
    /\ HasSection(file, GeneralName)
    /\ "enable_hook" \in DOMAIN Section(file, GeneralName).options
    /\ Section(file, GeneralName).options["enable_hook"]
            \in {<< "False" >>, << "false" >>, << "0" >>, << "no" >>, << "off" >>}
C10_DisabledOrNoRepository ==
    (pc = "exited" /\ (HookDisabledInFile \/ is_repo = "False"))
    => /\ exitCode = 1
       /\ localId = startId
       /\ inflight = {}
       /\ NoSelectionFlow

C10_Witness ==
    /\ pc = "exited"
    /\ HookDisabledInFile
    /\ is_repo = "True"
    /\ flag = "select"
    /\ IdentitySet(startId)
    /\ exitCode = 1

\* C11: in every run where the chooser returned a key k, once the process
\* has exited the exit code is 0 and the repository's local user.name and
\* user.email are the name and the email of candidates[k].
C11_CommitWritesBothFields ==
    (selected_id.outcome = "return" /\ pc = "exited")
    => /\ exitCode = 0
       /\ localId.name = DictValue(candidates, selected_id.selection)["name"]
       /\ localId.email = DictValue(candidates, selected_id.selection)["email"]

\* The words of the schema: a section is `general` or `passport N`, N a
\* non-negative integer; the keys of the whitelist.
SectionNumbers == {"0", "1", "2", "3", "7"}
IsPassportN(name) ==
    Len(name) = 3 /\ name[1] = "passport" /\ name[2] = " " /\ name[3] \in SectionNumbers
GeneralKeys == {"enable_hook", "sleep_duration"}
PassportKeys == {"email", "name", "service", "no_remote"}
UnknownSections(f) ==
    {s.name : s \in {t \in SectionsOf(f) :
        t.name # << "general" >> /\ ~IsPassportN(t.name)}}
UnknownKeys(f) ==
    UNION {{<< o >> : o \in (DOMAIN s.options) \ (GeneralKeys \cup PassportKeys)} :
           s \in SectionsOf(f)}
\* The schema check is behind the run.
SchemeChecked == file.exists /\ pc \notin {"preset", "validate_scheme"}
\* The run was stopped by an error message, with no store loaded.
RejectedBy(msgs) ==
    /\ pc = "exited"
    /\ exitCode = 1
    /\ config = NoConfig
    /\ stdout # << >>
    /\ stdout[Len(stdout)] \in msgs

\* C12: a file with a section that is neither `general` nor `passport N`, or
\* with a key outside the whitelist, is rejected by validate_scheme with a
\* message naming offending names, no store is loaded and the process stops.
C12_UnknownNamesRejected ==
    (SchemeChecked /\ (UnknownSections(file) # {} \/ UnknownKeys(file) # {}))
    => /\ RejectedBy({"Invalid sections", "Invalid options"})
       /\ reported # {}
       /\ reported \subseteq UnknownSections(file) \cup UnknownKeys(file)

\* The whitelist read per section.
PerSectionValid(f) ==
    \A s \in SectionsOf(f) :
        \/ s.name = << "general" >> /\ DOMAIN s.options \subseteq GeneralKeys
        \/ IsPassportN(s.name) /\ DOMAIN s.options \subseteq PassportKeys

\* C13: validate_scheme accepts a file only if [general] holds no key other
\* than enable_hook and sleep_duration, every other section is named
\* `passport N`, and each `passport N` holds no key other than email, name,
\* service and no_remote.
C13_WhitelistIsPerSection ==
    (file.exists /\ pc = "validate_values") => PerSectionValid(file)

\* The shape of an email address: non-empty @ non-empty . non-empty.
HasEmailShape(e) ==
    \E a, b \in 1..Len(e) :
        a > 1 /\ e[a] = "@" /\ b > a + 1 /\ e[b] = "." /\ b < Len(e)
\* The addresses of the `passport N` sections that fail the shape.
InvalidEmails(f) ==
    {s.options["email"] : s \in {t \in SectionsOf(f) :
        /\ IsPassportN(t.name)
        /\ "email" \in DOMAIN t.options
        /\ ~HasEmailShape(t.options["email"])}}
\* The value check is behind the run, the schema check having accepted the file.
ValuesChecked ==
    /\ file.exists
    /\ pc \notin {"preset", "validate_scheme", "validate_values"}
    /\ ~RejectedBy({"Invalid sections", "Invalid options"})

\* C14: a file with k >= 1 passport sections whose email fails the shape is
\* rejected by validate_values and the error output lists every one of the k
\* invalid addresses.
\* (checked on the files where nothing but the shape of the emails offends:
\* every passport section has an email and a boolean no_remote, if any)
BooleanLiterals == {"1", "yes", "true", "on", "0", "no", "false", "off", "True", "False"}
EmailsAndFlagsPresent(f) ==
    \A s \in SectionsOf(f) :
        IsPassportN(s.name)
        => /\ "email" \in DOMAIN s.options
           /\ "no_remote" \in DOMAIN s.options
              => (Len(s.options["no_remote"]) = 1
                  /\ s.options["no_remote"][1] \in BooleanLiterals)
C14_AllInvalidEmailsListed ==
    (ValuesChecked /\ EmailsAndFlagsPresent(file) /\ InvalidEmails(file) # {})
    => /\ RejectedBy({"Invalid email address"})
       /\ reported = InvalidEmails(file)

\* The settings of [general] as the spec reads them: enable_hook a boolean
\* literal, sleep_duration a number that is not negative.
HasSettings(f) ==
    /\ HasSection(f, << "general" >>)
    /\ {"enable_hook", "sleep_duration"} \subseteq DOMAIN Section(f, << "general" >>).options
HookIsBoolean(f) ==
    LET v == Section(f, << "general" >>).options["enable_hook"]
    IN Len(v) = 1 /\ v[1] \in BooleanLiterals
SleepIsNonNegative(f) ==
    Section(f, << "general" >>).options["sleep_duration"] \in {<< "0.75" >>, << "0" >>}

\* C15: a file whose enable_hook is not a boolean literal or whose
\* sleep_duration is not a non-negative number is rejected by validate_values
\* with an error naming the key; a negative sleep_duration is rejected at
\* load time. (Checked on the files whose passport sections do not offend.)
C15_SettingsRejected ==
    (/\ ValuesChecked
     /\ EmailsAndFlagsPresent(file)
     /\ InvalidEmails(file) = {}
     /\ HasSettings(file)
     /\ (~HookIsBoolean(file) \/ ~SleepIsNonNegative(file)))
    => /\ RejectedBy({"enable_hook: Expecting True or False.",
                      "sleep_duration: Expecting float or number."})
       /\ reported \in {{<< "enable_hook" >>}, {<< "sleep_duration" >>}}
       /\ reported = {<< "enable_hook" >>} => ~HookIsBoolean(file)
       /\ reported = {<< "sleep_duration" >>} => ~SleepIsNonNegative(file)

\* A `passport N` section lacks its name, has an empty name, or lacks its email.
LacksField(f) ==
    \E s \in SectionsOf(f) :
        /\ IsPassportN(s.name)
        /\ \/ "name" \notin DOMAIN s.options
           \/ s.options["name"] = EmptyStr
           \/ "email" \notin DOMAIN s.options

\* C16: every identity of a loaded store has a name, present and non-empty,
\* and an email; a file with a `passport N` section lacking one of them is
\* rejected with a configuration error, neither loaded nor ended by an
\* unhandled exception.
C16_RequiredFields ==
    /\ config # NoConfig
       => \A e \in Entries(config.git_passports) :
            /\ "name" \in DOMAIN e.value
            /\ e.value["name"] # EmptyStr
            /\ "email" \in DOMAIN e.value
    /\ (ValuesChecked /\ LacksField(file))
       => /\ pc = "exited"
          /\ exitCode = 1
          /\ config = NoConfig
          /\ stdout # << >>
          /\ stdout[Len(stdout)] # "Traceback"

\* The `passport N` sections of a file, in the order they are declared.
DeclaredPassports(f) == SelectSeq(f.sections, LAMBDA t : IsPassportN(t.name))

\* C17: after a successful load the identities are keyed 0, 1, ..., n-1 in
\* the order their `passport N` sections are declared, whatever the numbers
\* N; each carries the name, email and service of its section, and no_remote
\* is the boolean False when the section has no such key.
C17_StoreKeysFollowDeclaration ==
    (config # NoConfig /\ pc = "enable_hook")
    => LET store == config.git_passports
           secs == DeclaredPassports(file)
       IN /\ Len(store) = Len(secs)
          /\ \A i \in 1..Len(secs) :
                /\ store[i].key = i - 1
                /\ \A k \in {"name", "email", "service"} :
                      IF k \in DOMAIN secs[i].options
                      THEN k \in DOMAIN store[i].value
                           /\ store[i].value[k] = secs[i].options[k]
                      ELSE k \notin DOMAIN store[i].value
                /\ "no_remote" \in DOMAIN store[i].value
                /\ "no_remote" \notin DOMAIN secs[i].options
                   => store[i].value["no_remote"] = FALSE

C17_Witness ==
    /\ config # NoConfig
    /\ Len(file.sections) = 3
    /\ file.sections[2].name = << "passport", " ", "7" >>
    /\ file.sections[3].name = << "passport", " ", "3" >>
    /\ "service" \in DOMAIN file.sections[2].options
    /\ "no_remote" \in DOMAIN file.sections[3].options
    /\ DictKeys(config.git_passports) = {0, 1}
    /\ config.git_passports[1].value["no_remote"] = FALSE
    /\ config.git_passports[2].value["no_remote"] = TRUE

\* What the first-run bootstrap leaves: the sample file with n example
\* identities, hook enabled, pause 0.75, and a process that has stopped
\* before validating, loading, calling git or prompting.
BootstrapStep(n) ==
    (pc = "preset" /\ ~file.exists)
    => /\ file'.exists
       /\ Cardinality({t \in SectionsOf(file') : IsPassportN(t.name)}) = n
       /\ Len(file'.sections) = n + 1
       /\ Section(file', << "general" >>).options
            = [enable_hook |-> << "True" >>, sleep_duration |-> << "0.75" >>]
       /\ pc' = "exited"
       /\ config' = NoConfig
       /\ is_repo' = "unknown"
       /\ inflight' = {}
       /\ consumed' = << >>
       /\ candidates' = << >>
ExistingFileKept == file.exists => file' = file

Rendered(choice, blocks) ==
    /\ Len(blocks) = Len(choice)
    /\ \A i \in 1..Len(choice) :
          /\ "key" \in DOMAIN blocks[i]
          /\ blocks[i].key = choice[i].key
          /\ blocks[i].user = choice[i].value["name"]
          /\ blocks[i].email = choice[i].value["email"]
          /\ IF "service" \in DOMAIN choice[i].value
             THEN blocks[i].service = choice[i].value["service"]
             ELSE blocks[i].service = None
          /\ IsGlobalEntry(choice[i])
             <=> blocks[i].label = "Global passport"

\* C19: print_choice renders each entry of the candidate mapping exactly
\* once, with its key, name and email, with its service if it has one, and
\* the global entry with its own label and no service; with --passports
\* every stored identity is printed.
C19_EveryEntryRendered ==
    /\ pc = "input" => Rendered(candidates, shown)
    /\ (flag = "passports" /\ PassedStartup /\ pc = "exited")
       => Rendered(config.git_passports, shown)

\* C20: for a remote URL of any form naming host H, a stored identity whose
\* service is H is selected by url_exists through the match on the host; the
\* comparison is exact, and a service ".*" is not selected as a pattern.
C20_ServiceComparedWithHost ==
    (SelectedWithUrl /\ \E e \in Entries(Store) : ServiceIsHost(e, local_url))
    => /\ \E i \in 1..Len(stdout) : stdout[i] = "One or more passports match"
       /\ \A e \in Entries(Store) :
            ServiceIsHost(e, local_url) => e \in Entries(candidates)
       /\ \A c \in Entries(candidates) :
            (GetEquals(c.value, "service", << ".*" >>) /\ ~ServiceIsHost(c, local_url))
            => c.value["no_remote"]

\* C21: the writes to the local git configuration are blocking: the email
\* write and the name write never run at the same time, and no spawned
\* `git config` process is still running when the process has exited.
C21_WritesAreBlocking ==
    /\ Cardinality(inflight) <= 1
    /\ pc = "exited" => inflight = {}

\* The run is over: the script has exited and no spawned git process is left.
Terminated == pc = "exited" /\ inflight = {}

\* The candidate the chooser's key names.
Chosen == DictValue(candidates, selected_id.selection)

\* C22: no run terminates with exactly one of the two local fields written
\* from the selected candidate, and a write is started only after the
\* chooser returned a key.
C22_NoPartialApplication ==
    /\ inflight # {} => selected_id.outcome = "return"
    /\ (Terminated /\ selected_id.outcome = "return") =>
           (localId.email = Chosen["email"] <=> localId.name = Chosen["name"])

\* The configuration file exists and one of the two validations fails.
FailsValidation ==
    /\ file.exists
    /\ ~validate_scheme(file) \/ validate_values(file) # "ok"

\* C23: in a run whose configuration file fails schema or value validation
\* the store is never loaded, and as long as it is not loaded the process
\* is in the startup checks or has stopped with a non-zero exit code, the
\* local identity is still the one the run started with, no git process was
\* spawned, and nothing was prompted or read.
C23_FatalConfigurationPrecedesMutation ==
    /\ [][config' = config \/ ~FailsValidation]_vars
    /\ []((config = NoConfig /\ FailsValidation)
          => /\ pc \in {"preset", "validate_scheme", "validate_values", "exited"}
             /\ pc = "exited" => exitCode # 0
             /\ localId = startId
             /\ inflight = {}
             /\ shown = << >>
             /\ consumed = << >>)
C23_Witness ==
    /\ FailsValidation
    /\ validate_scheme(file)
    /\ flag \in {"select", "delete"}
    /\ IdentitySet(startId)
    /\ pc = "exited"

\* msg is among the lines the run has printed.
Printed(msg) == \E i \in DOMAIN stdout : stdout[i] = msg

\* C24: repository detection has three outcomes: True; False together with
\* the not-a-repository notice; and, for every other exit status of
\* git rev-parse, a raised error that ends the run with a traceback and
\* without the notice.
C24_ThreeDetectionOutcomes ==
    /\ is_repo \in {"unknown", "True", "False", "raise"}
    /\ is_repo = "False" =>
           pc = "exited" /\ exitCode = 1 /\ Printed("Not a Git repository")
    /\ is_repo = "raise" =>
           /\ pc = "exited" /\ exitCode = 1
           /\ Printed("Traceback") /\ ~Printed("Not a Git repository")

\* C25: the identity store is read-only after the load: in every state of a
\* run, config["git_passports"] is what release() returned, also after the
\* global identity was added to the candidates.
C25_StoreIsReadOnly ==
    config # NoConfig => config.git_passports = Store

\* The positions of the candidates that carry the global origin flag.
GlobalPositions == {i \in 1..Len(candidates) : IsGlobalEntry(candidates[i])}

\* C26: the candidates hold at most one entry with the global origin flag;
\* its key is the length of the store, greater than every stored key; it is
\* the last entry in iteration order, and every entry before it is a stored
\* identity under its own key.
C26_OneGlobalEntryAtStoreLength ==
    /\ Cardinality(GlobalPositions) <= 1
    /\ \A i \in GlobalPositions :
          /\ candidates[i].key = Len(Store)
          /\ \A e \in Entries(Store) : e.key < candidates[i].key
          /\ i = Len(candidates)
          /\ \A j \in 1..(i - 1) :
                /\ candidates[j] \in Entries(Store)
                /\ candidates[j].key # candidates[i].key
C26_Witness ==
    /\ SelectedWithoutUrl
    /\ Len(Store) = 2
    /\ GlobalPositions = {3}

\* The whole value has the shape non-empty @ non-empty . non-empty, with
\* exactly one "@".
FullEmailShape(e) ==
    \E a \in 1..Len(e) :
        /\ a > 1
        /\ \A i \in 1..Len(e) : e[i] = "@" <=> i = a
        /\ \E b \in 1..Len(e) : b > a + 1 /\ e[b] = "." /\ b < Len(e)

\* C27: validate_values accepts a passport email if and only if the whole
\* value has the email shape: a file is rejected for its email exactly when
\* the email of some `passport N` section fails the full shape, a@b.c@d
\* included.
\* (checked on the files where every passport section has an email and a
\* boolean no_remote, if any)
C27_EmailShapeIsFullMatch ==
    (ValuesChecked /\ EmailsAndFlagsPresent(file))
    => (RejectedBy({"Invalid email address"})
        <=> \E s \in SectionsOf(file) :
                IsPassportN(s.name) /\ ~FullEmailShape(s.options["email"]))

\* The chooser has returned: with a key, or with None on quit.
ChooserReturned == selected_id.outcome \in {"return", "quit"}

\* C28: the chooser has returned if and only if one of the lines read was
\* "q", "quit" or an integer that is a key of the candidates; a returned key
\* is a key of the candidates, so the lookup that follows succeeds; with no
\* candidates the chooser returns on quit only.
C28_ChooserReturnsOnlyKeys ==
    /\ ChooserReturned <=> \E i \in 1..Len(consumed) : Deciding(consumed[i])
    /\ selected_id.outcome = "return"
       => \E i \in 1..Len(candidates) :
              candidates[i].key = selected_id.selection
    /\ (ChooserReturned /\ candidates = << >>)
       => /\ selected_id.outcome = "quit"
          /\ consumed[Len(consumed)] \in {<< "q" >>, << "quit" >>}
C28_Witness ==
    /\ candidates = << >>
    /\ consumed = << << "0" >>, << "quit" >> >>
    /\ selected_id.outcome = "quit"
    /\ pc = "exited"

\* C29: the redirection of sys.stdin to the terminal is always undone:
\* sys.stdin is sys.__stdin__ whenever the chooser has returned, at the end
\* of every pass that prompts again, and also when the read itself raised
\* at the end of input.
C29_StdinRedirectionUndone ==
    /\ ChooserReturned => sys_stdin = "stdin"
    /\ (selected_id.outcome = "again" /\ pc = "input") => sys_stdin = "stdin"
    /\ EndOfInput => sys_stdin = "stdin"

\* Exactly one of the two local fields is set.
Partial(l) == (l.name = EmptyStr) # (l.email = EmptyStr)

\* C30: a local identity with exactly one field set counts as not set.
\* With no flag the run does not show it as the active identity but goes
\* through the selector to the chooser, and once a selection is committed
\* and the run is over both fields are those of the chosen candidate.
\* With --active the run reports "No passport set." and ends with code 0
\* without the display pause (so also when the pause would raise).
C30_PartialIdentityIsNotSet ==
    /\ (flag = "none" /\ Partial(startId) /\ PassedStartup)
       => /\ ~Printed("Active Passport")
          /\ pc \in {"enable_hook", "args", "identity", "input",
                     "commit_email", "commit_name", "exited"}
          /\ pc = "exited" => (ChooserReturned \/ EndOfInput)
    /\ (flag = "none" /\ Partial(startId) /\ Terminated
        /\ selected_id.outcome = "return")
       => /\ localId.name = Chosen["name"]
          /\ localId.email = Chosen["email"]
    /\ (flag = "active" /\ Partial(startId) /\ PassedStartup /\ pc = "exited")
       => /\ Printed("No passport set.")
          /\ ~Printed("Active Passport")
          /\ ~Printed("Traceback")
          /\ exitCode = 0

====
